---- MODULE Spec2Model ----
(***************************************************************************)
(* gh-cascade: main() of main.go as a state machine.  One run checks the   *)
(* working copy, fetches the user's open pull requests, and for each one   *)
(* extracts its declared dependency, looks it up, checks the pull request  *)
(* out and rebases it, recording one ProcessedPullRequest per request.     *)
(* Text (bodies, commit ids, stderr) is a sequence of one-character        *)
(* strings so that the regexp, the slice and strings.Contains are computed *)
(* and not assumed.                                                        *)
(***************************************************************************)
EXTENDS Integers, Sequences, FiniteSets, TLC

\* ------------------------------------------------------------------ bounds
\* Longest list of pull requests that ListPullRequests returns.
MaxRequests == 2

\* ------------------------------------------------------------------- text
Upper ==
    <<"A","B","C","D","E","F","G","H","I","J","K","L","M","N","O","P","Q","R","S","T","U","V","W","X","Y","Z">>

Lower ==
    <<"a","b","c","d","e","f","g","h","i","j","k","l","m","n","o","p","q","r","s","t","u","v","w","x","y","z">>

Digits ==
    <<"0","1","2","3","4","5","6","7","8","9">>

\* (?i): a letter matches in either case.
Fold(c) ==
    IF \E k \in 1..26 : Upper[k] = c
    THEN Lower[CHOOSE k \in 1..26 : Upper[k] = c]
    ELSE c

\* \s of the regexp syntax: [\t\n\f\r ].
IsSpace(c) == c \in {" ", "\t", "\n", "\f", "\r"}

\* \d of the regexp syntax.
IsDigit(c) == \E k \in 1..10 : Digits[k] = c

\* Does the literal lit (lower case) occur in s at position p, ignoring case?
LitAt(s, p, lit) ==
    /\ p + Len(lit) - 1 <= Len(s)
    /\ \A k \in 1..Len(lit) : Fold(s[p + k - 1]) = lit[k]

\* First position >= p of s that does not satisfy \s (Len(s)+1 if none).
RECURSIVE SkipSpace(_, _)
SkipSpace(s, p) ==
    IF p <= Len(s) /\ IsSpace(s[p]) THEN SkipSpace(s, p + 1) ELSE p

\* First position >= p of s that does not satisfy \d (Len(s)+1 if none).
RECURSIVE SkipDigits(_, _)
SkipDigits(s, p) ==
    IF p <= Len(s) /\ IsDigit(s[p]) THEN SkipDigits(s, p + 1) ELSE p

\* Position after the optional group (?:s|ed|ing)? tried at q.  The next
\* element of the pattern is \s+, which none of s, e, i satisfies, so the
\* alternative that matches is the only way the match can go on.
AfterSuffix(s, q) ==
    IF LitAt(s, q, <<"s">>) THEN q + 1
    ELSE IF LitAt(s, q, <<"e","d">>) THEN q + 2
    ELSE IF LitAt(s, q, <<"i","n","g">>) THEN q + 3
    ELSE q

\* The match of (?i)depend(?:s|ed|ing)?\s+on:\s+#(\d+) that starts at p:
\* ok, the captured digits and the position after the match.
MatchAt(s, p) ==
    LET q  == AfterSuffix(s, p + 6)
        r  == SkipSpace(s, q)
        t  == SkipSpace(s, r + 3)
        e  == SkipDigits(s, t + 1)
        ok == /\ LitAt(s, p, <<"d","e","p","e","n","d">>)
              /\ r > q
              /\ LitAt(s, r, <<"o","n",":">>)
              /\ t > r + 3
              /\ LitAt(s, t, <<"#">>)
              /\ e > t + 1
    IN  [ok |-> ok,
         digits |-> IF ok THEN SubSeq(s, t + 1, e - 1) ELSE <<>>,
         end |-> e]

\* FindAllStringSubmatch(body, -1), keeping match[1] of every match: the
\* leftmost matches, left to right, not overlapping.
RECURSIVE FindAllFrom(_, _)
FindAllFrom(s, p) ==
    IF p > Len(s) THEN <<>>
    ELSE LET m == MatchAt(s, p)
         IN  IF m.ok THEN <<m.digits>> \o FindAllFrom(s, m.end)
             ELSE FindAllFrom(s, p + 1)

FindAllStringSubmatch(s) == FindAllFrom(s, 1)

\* ---------------------------------------------------------------- strconv
Int64Max ==
    <<"9","2","2","3","3","7","2","0","3","6","8","5","4","7","7","5","8","0","7">>

DigitVal(c) == (CHOOSE k \in 1..10 : Digits[k] = c) - 1

RECURSIVE StripZeros(_)
StripZeros(d) ==
    IF Len(d) > 1 /\ d[1] = "0" THEN StripZeros(Tail(d)) ELSE d

\* a > b for two digit strings of the same length.
RECURSIVE DigitsGreater(_, _)
DigitsGreater(a, b) ==
    IF a = <<>> THEN FALSE
    ELSE IF DigitVal(a[1]) # DigitVal(b[1]) THEN DigitVal(a[1]) > DigitVal(b[1])
    ELSE DigitsGreater(Tail(a), Tail(b))

RECURSIVE DigitsValue(_)
DigitsValue(d) ==
    IF d = <<>> THEN 0
    ELSE 10 * DigitsValue(SubSeq(d, 1, Len(d) - 1)) + DigitVal(d[Len(d)])

\* strconv.Atoi on a non-empty string of digits: a value out of the range
\* of a 64-bit int is an error (ErrRange), anything else converts.
Atoi(d) ==
    LET c   == StripZeros(d)
        bad == \/ Len(c) > Len(Int64Max)
               \/ Len(c) = Len(Int64Max) /\ DigitsGreater(c, Int64Max)
    IN  [err |-> bad, val |-> IF bad THEN 0 ELSE DigitsValue(c)]

\* strings.Contains(s, sub).
Contains(s, sub) ==
    \E k \in 1..(Len(s) - Len(sub) + 1) : SubSeq(s, k, k + Len(sub) - 1) = sub

\* ------------------------------------------------------------------ inputs
BodyColon ==
    <<"D","e","p","e","n","d","s"," ","o","n",":"," ","#","1","2","3">>

BodyReadme ==
    <<"D","e","p","e","n","d","s"," ","o","n"," ","#","1","2","3">>

BodyPlain ==
    <<"f","i","x"," ","t","y","p","o">>

BodyMany ==
    <<"d","e","p","e","n","d","e","d"," ","o","n",":"," ","#","2"," ","D","E","P","E","N","D"," ","O","N",":"," ","#","1"," ","d","e","p","e","n","d","i","n","g"," ","o","n",":"," ","#","2">>

BodyHuge ==
    <<"d","e","p","e","n","d","s"," ","o","n",":"," ","#","9","9","9","9","9","9","9","9","9","9","9","9","9","9","9","9","9","9","9","9">>

Bodies == {BodyColon, BodyReadme, BodyPlain, BodyMany, BodyHuge}

OidFull ==
    <<"a","b","c","1","2","3","4","d","e","f">>

\* mergeCommit.oid of a looked-up pull request; empty when the response
\* carries no merge commit.
Oids == {<<>>, OidFull}

ConflictMarker ==
    <<"c","o","u","l","d"," ","n","o","t"," ","a","p","p","l","y">>

StderrConflict ==
    <<"e","r","r","o","r",":"," ","c","o","u","l","d"," ","n","o","t"," ","a","p","p","l","y"," ","a","b","c","1","2","3","4">>

StderrOther ==
    <<"f","a","t","a","l",":"," ","i","n","v","a","l","i","d"," ","u","p","s","t","r","e","a","m">>

\* State of a pull request as the review platform reports it.
States == {"OPEN", "CLOSED", "MERGED"}

\* What `git status --porcelain` looks at.
WorkingCopies == {"clean", "modified", "untracked"}

\* The i-th pull request of a fetched list.
PullRequest(i, body, draft) ==
    [Number |-> 9 + i, HeadRefName |-> <<"topic", i>>, Body |-> body,
     IsDraft |-> draft, State |-> "OPEN"]

\* The lists ListPullRequests can return.
RequestLists ==
    UNION { { [i \in 1..n |-> PullRequest(i, f[i][1], f[i][2])] :
                f \in [1..n -> Bodies \X BOOLEAN] } : n \in 0..MaxRequests }

\* ------------------------------------------------------------------- state
VARIABLES
    pc,                     \* position of main
    cancelled,              \* ctx is done (the interrupt signal arrived)
    workingCopy,            \* the working copy when the run starts
    err,                    \* err of main's function scope
    defaultBranch,
    pullRequests,
    idx,                    \* position of the range loop in pullRequests
    dependOns,
    dependedPullRequest,    \* <<>> is nil, <<p>> points to p
    loopErr,                \* err declared in the loop body (line 148)
    processedPullRequests,
    rebaseStderr,           \* stderr buffer of the rebase command
    ops,                    \* external commands called for the request at hand
                            \* (before the loop: for the run), in call order
    currentBranch,          \* branch the working copy is on
    rebaseInProgress,       \* the repository is in the middle of a rebase
    interruptedRebase,      \* request whose rebase was being applied when ctx
                            \* was cancelled
    output                  \* the report written to color.Output: the rows
                            \* under each of its two headings

vars == <<pc, cancelled, workingCopy, err, defaultBranch, pullRequests, idx,
          dependOns, dependedPullRequest, loopErr, processedPullRequests,
          rebaseStderr, ops, currentBranch, rebaseInProgress, interruptedRebase,
          output>>

Terminal == {"exit", "done", "panic"}

\* One call of an external command for request req (0: for the run): late
\* tells whether ctx was cancelled when the command was called, ran whether
\* the process was started (a command of a cancelled context is not), res
\* is what Run returned ("running" until it returns), out is what main
\* reads of its output (the state of a looked-up pull request, the stderr
\* of a rebase).
Op(name, req, late, ran, res, out) ==
    [op |-> name, req |-> req, late |-> late, ran |-> ran, res |-> res,
     out |-> out]

\* An error value of a ProcessedPullRequest; <<>> is nil.
Error(kind, refs, short) == <<[kind |-> kind, refs |-> refs, short |-> short]>>

ErrNoDependOn == Error("NoDependency", <<>>, <<>>)

\* ProcessedPullRequest that does not keep the pointer to the dependency.
ProcessedPullRequest_NoDepended(pr, deps, depended, e) ==
    [PullRequest |-> pr, DependOns |-> deps, DependedPullRequest |-> <<>>,
     Error |-> e]

ProcessedPullRequest(pr, deps, depended, e) ==
    [PullRequest |-> pr, DependOns |-> deps, DependedPullRequest |-> depended,
     Error |-> e]

Init ==
    /\ pc = "start"
    /\ cancelled = FALSE
    /\ workingCopy \in WorkingCopies
    /\ err = <<>>
    /\ defaultBranch = ""
    /\ pullRequests = <<>>
    /\ idx = 0
    /\ dependOns = <<>>
    /\ dependedPullRequest = <<>>
    /\ loopErr = <<>>
    /\ processedPullRequests = <<>>
    /\ rebaseStderr = <<>>
    /\ ops = <<>>
    /\ currentBranch = <<"original", 0>>
    /\ rebaseInProgress = FALSE
    /\ interruptedRebase = 0
    /\ output = [rebased |-> <<>>, notRebased |-> <<>>]

\* ------------------------------------------------- the external commands
\* What Run of an exec.CommandContext command can return: a command of a
\* cancelled context is not started and Run returns the context's error.
RunOutcomes == IF cancelled THEN {"ctx"} ELSE {"fail", "ok"}

\* What gh.ExecContext can return: the context's error when it is cancelled,
\* an error, or exit status 0 with text on stderr, with a body that is not the expected JSON, or with the answer.
GhOutcomes == IF cancelled THEN {"ctx"} ELSE {"err", "stderr", "badjson", "ok"}

\* safeexec.LookPath finds the tool or not.
LookPaths == {"found", "missing"}

Log(name, req, res, out) ==
    Append(ops, Op(name, req, cancelled, res # "ctx", res, out))

\* IsCurrentBranchDirty that does not see untracked files.
IsCurrentBranchDirty_TrackedOnly(look, res, wc) ==
    IF look = "missing" \/ res # "ok"
    THEN [isDirty |-> FALSE, err |-> <<"status">>]
    ELSE [isDirty |-> wc = "modified", err |-> <<>>]

\* IsCurrentBranchDirty: dirty when `git status --porcelain` prints anything,
\* which it does for a tracked and for an untracked change.
IsCurrentBranchDirty(look, res, wc) ==
    IF look = "missing" \/ res # "ok"
    THEN [isDirty |-> FALSE, err |-> <<"status">>]
    ELSE [isDirty |-> wc # "clean", err |-> <<>>]

\* GetDefaultBranch: with text on stderr it returns "" and the nil err of
\* the call (line 260).
GetDefaultBranch(res) ==
    IF res \in {"ctx", "err", "badjson"} THEN [name |-> "", err |-> <<"gh">>]
    ELSE IF res = "stderr" THEN [name |-> "", err |-> <<>>]
    ELSE [name |-> "main", err |-> <<>>]

\* ListPullRequests: with text on stderr it returns nil and the nil err of
\* the call (line 297).
ListPullRequests(res, list) ==
    IF res \in {"ctx", "err", "badjson"} THEN [prs |-> <<>>, err |-> <<"gh">>]
    ELSE IF res = "stderr" THEN [prs |-> <<>>, err |-> <<>>]
    ELSE [prs |-> list, err |-> <<>>]

\* GetPullRequest: with text on stderr it returns nil and the nil err of
\* the call (line 316).
GetPullRequest(res, number, state, oid) ==
    IF res \in {"ctx", "err", "badjson"} THEN [pr |-> <<>>, err |-> <<"gh">>]
    ELSE IF res = "stderr" THEN [pr |-> <<>>, err |-> <<>>]
    ELSE [pr |-> <<[Number |-> number, State |-> state,
                    MergeCommit |-> [Oid |-> oid]]>>,
          err |-> <<>>]

\* The merge commit ids a pull request in the given state can carry.
OidsOf(state) == IF state = "MERGED" THEN Oids ELSE {<<>>}

\* The error RebaseOntoPullRequest returns after a failed rebase (lines
\* 375-379); oldParent[:7] panics on a shorter string.
RebaseError(stderr, oldParent) ==
    IF Contains(stderr, ConflictMarker)
    THEN IF Len(oldParent) < 7
         THEN [panic |-> TRUE, err |-> <<>>]
         ELSE [panic |-> FALSE,
               err |-> Error("RebaseConflict", <<>>, SubSeq(oldParent, 1, 7))]
    ELSE [panic |-> FALSE, err |-> Error("RebaseFailed", <<>>, <<>>)]

\* ------------------------------------------------------------------ main
\* Lines 60-69: the dirty guard.
CheckDirty ==
    /\ pc = "start"
    /\ UNCHANGED output
    /\ \E look \in LookPaths, res \in RunOutcomes :
         LET r == IsCurrentBranchDirty(look, res, workingCopy)
         IN  /\ ops' = IF look = "found" THEN Log("status", 0, res, <<>>) ELSE ops
             /\ err' = r.err
             /\ pc' = IF r.err # <<>> \/ r.isDirty THEN "exit" ELSE "defaultBranch"
    /\ UNCHANGED <<cancelled, workingCopy, defaultBranch, pullRequests, idx,
                   dependOns, dependedPullRequest, loopErr,
                   processedPullRequests, rebaseStderr, currentBranch,
                   rebaseInProgress, interruptedRebase>>

\* Lines 77-81.
ResolveDefaultBranch ==
    /\ pc = "defaultBranch"
    /\ UNCHANGED output
    /\ \E res \in GhOutcomes :
         LET r == GetDefaultBranch(res)
         IN  /\ ops' = Log("defaultBranch", 0, res, <<>>)
             /\ err' = r.err
             /\ defaultBranch' = r.name
             /\ pc' = IF r.err # <<>> THEN "exit" ELSE "fetch"
    /\ UNCHANGED <<cancelled, workingCopy, pullRequests, idx, dependOns,
                   dependedPullRequest, loopErr, processedPullRequests,
                   rebaseStderr, currentBranch, rebaseInProgress,
                   interruptedRebase>>

\* Lines 83-86 and FetchOriginBranch.
FetchOrigin ==
    /\ pc = "fetch"
    /\ UNCHANGED output
    /\ \E look \in LookPaths, res \in RunOutcomes :
         LET failed == look = "missing" \/ res # "ok"
         IN  /\ ops' = IF look = "found" THEN Log("fetch", 0, res, <<>>) ELSE ops
             /\ err' = IF failed THEN <<"fetch">> ELSE <<>>
             /\ pc' = IF failed THEN "exit" ELSE "list"
    /\ UNCHANGED <<cancelled, workingCopy, defaultBranch, pullRequests, idx,
                   dependOns, dependedPullRequest, loopErr,
                   processedPullRequests, rebaseStderr, currentBranch,
                   rebaseInProgress, interruptedRebase>>

\* Lines 88-109: the list, and the return when it is empty.
ListRequests ==
    /\ pc = "list"
    /\ UNCHANGED output
    /\ \E res \in GhOutcomes, list \in RequestLists :
         LET r == ListPullRequests(res, list)
         IN  /\ ops' = Log("list", 0, res, <<>>)
             /\ err' = r.err
             /\ pullRequests' = r.prs
             /\ pc' = IF r.err # <<>> \/ Len(r.prs) = 0 THEN "exit" ELSE "loop"
    /\ idx' = 1
    /\ UNCHANGED <<cancelled, workingCopy, defaultBranch, dependOns,
                   dependedPullRequest, loopErr, processedPullRequests,
                   rebaseStderr, currentBranch, rebaseInProgress,
                   interruptedRebase>>

\* Record that leaves out the requests without a dependency.
Record_DropsNoDependency(o) ==
    /\ processedPullRequests' =
          IF o.Error = ErrNoDependOn THEN processedPullRequests
          ELSE Append(processedPullRequests, o)
    /\ idx' = idx + 1
    /\ pc' = "loop"

\* append(processedPullRequests, ...) followed by continue (or by the end
\* of the loop body).
Record(o) ==
    /\ processedPullRequests' = Append(processedPullRequests, o)
    /\ idx' = idx + 1
    /\ pc' = "loop"

\* Classify with the two early exits merged into one test len != 1.
Classify_NeverNone(n) ==
    IF n # 1 THEN "multiple" ELSE "single"

\* Classify that goes on with the first of several references.
Classify_PickFirst(n) ==
    IF n = 0 THEN "none" ELSE "single"

\* What lines 129-147 do with the extracted references.
Classify(n) ==
    IF n = 0 THEN "none" ELSE IF n > 1 THEN "multiple" ELSE "single"

\* Iterate that leaves draft pull requests alone.
Iterate_SkipsDrafts ==
    /\ pc = "loop"
    /\ UNCHANGED output
    /\ idx <= Len(pullRequests)
    /\ LET pr   == pullRequests[idx]
           m    == FindAllStringSubmatch(pr.Body)
           deps == [k \in 1..Len(m) |-> Atoi(m[k]).val]
       IN  IF (\E k \in 1..Len(m) : Atoi(m[k]).err) \/ err # <<>>
           THEN /\ pc' = "panic"
                /\ UNCHANGED <<idx, dependOns, processedPullRequests>>
           ELSE IF Classify(Len(m)) = "none" \/ pr.IsDraft
           THEN /\ Record(ProcessedPullRequest(pr, <<>>, <<>>, ErrNoDependOn))
                /\ dependOns' = deps
           ELSE IF Classify(Len(m)) = "multiple"
           THEN /\ Record(ProcessedPullRequest(pr, deps, <<>>,
                              Error("AmbiguousDependency", deps, <<>>)))
                /\ dependOns' = deps
           ELSE /\ pc' = "lookup"
                /\ dependOns' = deps
                /\ UNCHANGED <<idx, processedPullRequests>>
    /\ dependedPullRequest' = <<>>
    /\ loopErr' = <<>>
    /\ rebaseStderr' = <<>>
    /\ ops' = <<>>
    /\ UNCHANGED <<cancelled, workingCopy, err, defaultBranch, pullRequests,
                   currentBranch, rebaseInProgress, interruptedRebase>>

\* Lines 112-147: the references of the next pull request, and the
\* requests that end without a lookup.
Iterate ==
    /\ pc = "loop"
    /\ UNCHANGED output
    /\ idx <= Len(pullRequests)
    /\ LET pr   == pullRequests[idx]
           m    == FindAllStringSubmatch(pr.Body)
           deps == [k \in 1..Len(m) |-> Atoi(m[k]).val]
       IN  IF (\E k \in 1..Len(m) : Atoi(m[k]).err) \/ err # <<>>
           THEN /\ pc' = "panic"
                /\ UNCHANGED <<idx, dependOns, processedPullRequests>>
           ELSE IF Classify(Len(m)) = "none"
           THEN /\ Record(ProcessedPullRequest(pr, <<>>, <<>>, ErrNoDependOn))
                /\ dependOns' = deps
           ELSE IF Classify(Len(m)) = "multiple"
           THEN /\ Record(ProcessedPullRequest(pr, deps, <<>>,
                              Error("AmbiguousDependency", deps, <<>>)))
                /\ dependOns' = deps
           ELSE /\ pc' = "lookup"
                /\ dependOns' = deps
                /\ UNCHANGED <<idx, processedPullRequests>>
    /\ dependedPullRequest' = <<>>
    /\ loopErr' = <<>>
    /\ rebaseStderr' = <<>>
    /\ ops' = <<>>
    /\ UNCHANGED <<cancelled, workingCopy, err, defaultBranch, pullRequests,
                   currentBranch, rebaseInProgress, interruptedRebase>>

\* IsMerged that only turns closed dependencies away.
IsMerged_NotClosed(state) == state # "CLOSED"

\* Line 158.
IsMerged(state) == state = "MERGED"

\* Lines 147-165: the lookup of the single dependency and the test of its
\* state; dependedPullRequest.State of a nil pointer panics.
Lookup ==
    /\ pc = "lookup"
    /\ UNCHANGED output
    /\ \E res \in GhOutcomes, state \in States :
       \E oid \in OidsOf(state) :
         LET pr == pullRequests[idx]
             r  == GetPullRequest(res, dependOns[1], state, oid)
         IN  /\ ops' = Log("lookup", idx, res, IF res = "ok" THEN <<state>> ELSE <<>>)
             /\ loopErr' = r.err
             /\ dependedPullRequest' = r.pr
             /\ IF r.err # <<>>
                THEN Record(ProcessedPullRequest(pr, dependOns, <<>>,
                                Error("DependencyLookupFailed", dependOns, <<>>)))
                ELSE IF r.pr = <<>>
                THEN pc' = "panic" /\ UNCHANGED <<idx, processedPullRequests>>
                ELSE IF ~IsMerged(r.pr[1].State)
                THEN Record(ProcessedPullRequest(pr, dependOns, <<>>,
                                Error("DependencyNotMerged", dependOns, <<>>)))
                ELSE pc' = "checkout" /\ UNCHANGED <<idx, processedPullRequests>>
    /\ UNCHANGED <<cancelled, workingCopy, err, defaultBranch, pullRequests,
                   dependOns, rebaseStderr, currentBranch, rebaseInProgress,
                   interruptedRebase>>

\* Checkout whose failure is recorded nowhere and does not end the request.
Checkout_NoContinue ==
    /\ pc = "checkout"
    /\ UNCHANGED output
    /\ \E look \in LookPaths, res \in RunOutcomes :
         LET pr     == pullRequests[idx]
             failed == look = "missing" \/ res # "ok"
         IN  /\ ops' = IF look = "found" THEN Log("checkout", idx, res, <<>>) ELSE ops
             /\ loopErr' = IF failed THEN <<"checkout">> ELSE <<>>
             /\ currentBranch' = IF failed THEN currentBranch ELSE pr.HeadRefName
             /\ pc' = "rebase" /\ UNCHANGED <<idx, processedPullRequests>>
    /\ UNCHANGED <<cancelled, workingCopy, err, defaultBranch, pullRequests,
                   dependOns, dependedPullRequest, rebaseStderr,
                   rebaseInProgress, interruptedRebase>>

\* Checkout whose error goes to the err of main's function scope.
Checkout_OuterErr ==
    /\ pc = "checkout"
    /\ UNCHANGED output
    /\ \E look \in LookPaths, res \in RunOutcomes :
         LET pr     == pullRequests[idx]
             failed == look = "missing" \/ res # "ok"
         IN  /\ ops' = IF look = "found" THEN Log("checkout", idx, res, <<>>) ELSE ops
             /\ err' = IF failed THEN <<"checkout">> ELSE <<>>
             /\ currentBranch' = IF failed THEN currentBranch ELSE pr.HeadRefName
             /\ IF failed
                THEN Record(ProcessedPullRequest(pr, dependOns, <<>>,
                                Error("CheckoutFailed", dependOns, <<>>)))
                ELSE pc' = "rebase" /\ UNCHANGED <<idx, processedPullRequests>>
    /\ UNCHANGED <<cancelled, workingCopy, loopErr, defaultBranch, pullRequests,
                   dependOns, dependedPullRequest, rebaseStderr,
                   rebaseInProgress, interruptedRebase>>

\* Lines 167-174 and CheckoutToPullRequest.
Checkout ==
    /\ pc = "checkout"
    /\ UNCHANGED output
    /\ \E look \in LookPaths, res \in RunOutcomes :
         LET pr     == pullRequests[idx]
             failed == look = "missing" \/ res # "ok"
         IN  /\ ops' = IF look = "found" THEN Log("checkout", idx, res, <<>>) ELSE ops
             /\ loopErr' = IF failed THEN <<"checkout">> ELSE <<>>
             /\ currentBranch' = IF failed THEN currentBranch ELSE pr.HeadRefName
             /\ IF failed
                THEN Record(ProcessedPullRequest(pr, dependOns, <<>>,
                                Error("CheckoutFailed", dependOns, <<>>)))
                ELSE pc' = "rebase" /\ UNCHANGED <<idx, processedPullRequests>>
    /\ UNCHANGED <<cancelled, workingCopy, err, defaultBranch, pullRequests,
                   dependOns, dependedPullRequest, rebaseStderr,
                   rebaseInProgress, interruptedRebase>>

\* RebaseOntoPullRequest up to the start of `git rebase --onto` (lines
\* 363-372): without git it returns at once, with a cancelled context Run
\* fails without starting git, otherwise git runs.
RebaseStart ==
    /\ pc = "rebase"
    /\ UNCHANGED output
    /\ \E look \in LookPaths :
         LET pr == pullRequests[idx]
         IN  IF look = "missing"
             THEN /\ Record(ProcessedPullRequest(pr, dependOns, <<>>,
                                Error("RebaseFailed", dependOns, <<>>)))
                  /\ loopErr' = <<"rebase">>
                  /\ UNCHANGED ops
             ELSE IF cancelled
             THEN /\ ops' = Log("rebase", idx, "ctx", <<>>)
                  /\ pc' = "abort"
                  /\ UNCHANGED <<idx, processedPullRequests, loopErr>>
             ELSE /\ ops' = Log("rebase", idx, "running", <<>>)
                  /\ pc' = "rebasing"
                  /\ UNCHANGED <<idx, processedPullRequests, loopErr>>
    /\ rebaseStderr' = <<>>
    /\ UNCHANGED <<cancelled, workingCopy, err, defaultBranch, pullRequests,
                   dependOns, dependedPullRequest, currentBranch,
                   rebaseInProgress, interruptedRebase>>

\* How a running `git rebase --onto` ends: result of Run, stderr, and
\* whether the repository is left in the middle of the rebase.  A conflict
\* stops the rebase half-way; a rebase whose context is cancelled is killed
\* wherever it is, unless it had finished; git refuses to start a rebase in
\* a repository that is in the middle of one.
RebaseEndings ==
    IF rebaseInProgress
    THEN {<<IF cancelled THEN "killed" ELSE "fail", StderrOther, TRUE>>}
    ELSE IF cancelled
    THEN {<<"ok", <<>>, FALSE>>, <<"killed", <<>>, FALSE>>, <<"killed", <<>>, TRUE>>}
    ELSE {<<"ok", <<>>, FALSE>>, <<"fail", StderrConflict, TRUE>>,
          <<"fail", StderrOther, FALSE>>, <<"fail", StderrOther, TRUE>>}

\* Line 372: Run of the rebase returns; lines 185-190 when it succeeded.
RebaseReturn ==
    /\ pc = "rebasing"
    /\ UNCHANGED output
    /\ \E e \in RebaseEndings :
         /\ ops' = [ops EXCEPT ![Len(ops)].res = e[1], ![Len(ops)].out = e[2]]
         /\ rebaseStderr' = e[2]
         /\ rebaseInProgress' = e[3]
         /\ IF e[1] = "ok"
            THEN /\ Record(ProcessedPullRequest(pullRequests[idx], dependOns,
                               dependedPullRequest, <<>>))
                 /\ loopErr' = <<>>
            ELSE /\ pc' = "abort"
                 /\ UNCHANGED <<idx, processedPullRequests, loopErr>>
    /\ UNCHANGED <<cancelled, workingCopy, err, defaultBranch, pullRequests,
                   dependOns, dependedPullRequest, currentBranch,
                   interruptedRebase>>

\* What Run of `git rebase --abort` can return: not started with a cancelled
\* context; with no rebase to abort git fails.
AbortOutcomes ==
    IF cancelled THEN {"ctx"}
    ELSE IF rebaseInProgress THEN {"fail", "ok"} ELSE {"fail"}

\* RebaseAbort that aborts only after a conflict.
RebaseAbort_ConflictOnly ==
    /\ pc = "abort"
    /\ UNCHANGED output
    /\ \E res \in AbortOutcomes :
         LET pr == pullRequests[idx]
             r  == RebaseError(rebaseStderr, dependedPullRequest[1].MergeCommit.Oid)
             c  == Contains(rebaseStderr, ConflictMarker)
         IN  /\ ops' = IF c THEN Log("abort", idx, res, <<>>) ELSE ops
             /\ rebaseInProgress' = IF c /\ res = "ok" THEN FALSE ELSE rebaseInProgress
             /\ IF r.panic
                THEN pc' = "panic" /\ UNCHANGED <<idx, processedPullRequests, loopErr>>
                ELSE /\ Record(ProcessedPullRequest(pr, dependOns, <<>>,
                                   Error(r.err[1].kind, dependOns, r.err[1].short)))
                     /\ loopErr' = r.err
    /\ UNCHANGED <<cancelled, workingCopy, err, defaultBranch, pullRequests,
                   dependOns, dependedPullRequest, rebaseStderr, currentBranch,
                   interruptedRebase>>

\* Lines 373-380 and 176-183: the abort, whose result is dropped, then the
\* error that is returned and recorded.
RebaseAbort ==
    /\ pc = "abort"
    /\ UNCHANGED output
    /\ \E res \in AbortOutcomes :
         LET pr == pullRequests[idx]
             r  == RebaseError(rebaseStderr, dependedPullRequest[1].MergeCommit.Oid)
         IN  /\ ops' = Log("abort", idx, res, <<>>)
             /\ rebaseInProgress' = IF res = "ok" THEN FALSE ELSE rebaseInProgress
             /\ IF r.panic
                THEN pc' = "panic" /\ UNCHANGED <<idx, processedPullRequests, loopErr>>
                ELSE /\ Record(ProcessedPullRequest(pr, dependOns, <<>>,
                                   Error(r.err[1].kind, dependOns, r.err[1].short)))
                     /\ loopErr' = r.err
    /\ UNCHANGED <<cancelled, workingCopy, err, defaultBranch, pullRequests,
                   dependOns, dependedPullRequest, rebaseStderr, currentBranch,
                   interruptedRebase>>

\* Lines 392-407: the colour of a pull request's number.
getColor(pullRequest) ==
    CASE pullRequest.State = "OPEN" ->
            IF pullRequest.IsDraft THEN "hiBlack" ELSE "green"
      [] pullRequest.State = "MERGED" -> "magenta"
      [] pullRequest.State = "CLOSED" -> "red"
      [] OTHER -> "hiBlack"

\* errors.Is: none of the errors main builds wraps ErrNoDependOn, so the
\* chain of e holds target only when e is target.
ErrorsIs(e, target) == e = target

\* Lines 203-207: the row of a rebased pull request; it reads the Number
\* of the dependency through the pointer.
RebasedRow(p) ==
    [Number   |-> p.PullRequest.Number,
     color    |-> getColor(p.PullRequest),
     Depended |-> p.DependedPullRequest[1].Number]

\* Lines 197-208: the first loop over processedPullRequests, which skips
\* the elements with an error.
RebasedRows ==
    LET kept == SelectSeq(processedPullRequests, LAMBDA p : p.Error = <<>>)
    IN  [i \in 1..Len(kept) |-> RebasedRow(kept[i])]

\* A message colour that does not tell the errors apart.
MessageColor_AlwaysRed(e) == "red"

\* Lines 226-230: the colour of the message of a pull request not rebased.
MessageColor(e) == IF ErrorsIs(e, ErrNoDependOn) THEN "hiYellow" ELSE "red"

\* Lines 216-230: the row of a pull request that was not rebased.
NotRebasedRow(p) ==
    [Number       |-> p.PullRequest.Number,
     color        |-> IF p.PullRequest.IsDraft THEN "hiBlack" ELSE "green",
     message      |-> p.Error[1].kind,
     messageColor |-> MessageColor(p.Error)]

\* Lines 211-231: the second loop, which skips the elements without error.
NotRebasedRows ==
    LET kept == SelectSeq(processedPullRequests, LAMBDA p : p.Error # <<>>)
    IN  [i \in 1..Len(kept) |-> NotRebasedRow(kept[i])]

\* Lines 193-234: the report, once the loop is over.
Report ==
    /\ pc = "loop"
    /\ idx > Len(pullRequests)
    /\ IF \E i \in 1..Len(processedPullRequests) :
             /\ processedPullRequests[i].Error = <<>>
             /\ processedPullRequests[i].DependedPullRequest = <<>>
       THEN /\ pc' = "panic"
            /\ UNCHANGED output
       ELSE /\ pc' = "done"
            /\ output' =
                  [rebased |-> RebasedRows, notRebased |-> NotRebasedRows]
    /\ UNCHANGED <<cancelled, workingCopy, err, defaultBranch, pullRequests,
                   idx, dependOns, dependedPullRequest, loopErr,
                   processedPullRequests, rebaseStderr, ops, currentBranch,
                   rebaseInProgress, interruptedRebase>>

\* Line 57: the interrupt signal cancels ctx, at any moment of the run.  A
\* rebase that git refuses to start, the repository being in the middle of
\* another, is not being applied.
Interrupt ==
    /\ pc \notin Terminal
    /\ UNCHANGED output
    /\ ~cancelled
    /\ cancelled' = TRUE
    /\ interruptedRebase' =
          IF pc = "rebasing" /\ ~rebaseInProgress THEN idx ELSE interruptedRebase
    /\ UNCHANGED <<pc, workingCopy, err, defaultBranch, pullRequests, idx,
                   dependOns, dependedPullRequest, loopErr,
                   processedPullRequests, rebaseStderr, ops, currentBranch,
                   rebaseInProgress>>

Next ==
    \/ CheckDirty
    \/ ResolveDefaultBranch
    \/ FetchOrigin
    \/ ListRequests
    \/ Iterate
    \/ Lookup
    \/ Checkout
    \/ RebaseStart
    \/ RebaseReturn
    \/ RebaseAbort
    \/ Report
    \/ Interrupt

Spec == Init /\ [][Next]_vars

\* ---------------------------------------------------------------- claims
\* The references main extracts from a body, as numbers, for every body of
\* the model.
DependOnsOf ==
    [body \in Bodies |->
        LET m == FindAllStringSubmatch(body)
        IN  [k \in 1..Len(m) |-> Atoi(m[k]).val]]

\* The positions in ops of the commands called for request k.
OpsOf(k) == {i \in 1..Len(ops) : ops[i].req = k}

Outcomes == 1..Len(processedPullRequests)

\* The request whose processing has just ended, while ops still holds its
\* commands (0 if there is none).
JustEnded == IF pc \in {"loop", "done"} THEN Len(processedPullRequests) ELSE 0

KindOf(k) ==
    IF processedPullRequests[k].Error = <<>> THEN "nil"
    ELSE processedPullRequests[k].Error[1].kind

FailureKinds ==
    {"NoDependency", "AmbiguousDependency", "DependencyLookupFailed",
     "DependencyNotMerged", "CheckoutFailed", "RebaseConflict", "RebaseFailed"}

\* C1: once the list is fetched, whatever happens to one request, the run
\* ends with the report and with an outcome for every request of the list.
C1_FailureIsolation ==
    (pc \in Terminal /\ Len(pullRequests) > 0)
        => (pc = "done" /\ Len(processedPullRequests) = Len(pullRequests))

\* The rebase of request k ran and succeeded.
Rebased(k) ==
    \E i \in OpsOf(k) : ops[i].op = "rebase" /\ ops[i].res = "ok"

C2_Counts ==
    /\ pc \in {"loop", "lookup", "checkout", "rebase", "rebasing", "abort"}
          => Len(processedPullRequests) = idx - 1
    /\ (pc = "done" \/ (pc = "loop" /\ idx > Len(pullRequests)))
          => Len(processedPullRequests) = Len(pullRequests)
    /\ \A k \in Outcomes :
          /\ processedPullRequests[k].PullRequest = pullRequests[k]
          /\ (KindOf(k) = "nil") # (KindOf(k) \in FailureKinds)
          /\ k = JustEnded => ((KindOf(k) = "nil") <=> Rebased(k))

C2_AppendOnly ==
    \/ processedPullRequests' = processedPullRequests
    \/ /\ Len(processedPullRequests') = Len(processedPullRequests) + 1
       /\ SubSeq(processedPullRequests', 1, Len(processedPullRequests))
              = processedPullRequests

\* C2: the outcome list only grows by appending, has k entries after k
\* requests and one entry per fetched request when the report starts, in
\* the order of the list, and every entry is either the success of a rebase
\* that succeeded or one classified failure.
C2_OutcomeList == []C2_Counts /\ [][C2_AppendOnly]_vars

C2_Witness ==
    /\ pc = "done"
    /\ Len(processedPullRequests) >= 2
    /\ \E j, k \in Outcomes : KindOf(j) = "nil" /\ KindOf(k) = "NoDependency"

\* C3: with a dirty working copy nothing but the status command is ever
\* called, nothing is fetched and no outcome is produced.
C3_DirtyAborts ==
    workingCopy # "clean" =>
        /\ pc \in {"start", "exit"}
        /\ \A i \in 1..Len(ops) : ops[i].op = "status"
        /\ pullRequests = <<>>
        /\ processedPullRequests = <<>>

C3_Witness ==
    /\ workingCopy = "untracked"
    /\ pc = "exit"
    /\ Len(ops) = 1 /\ ops[1].op = "status" /\ ops[1].res = "ok"

\* C4: a request whose body has no reference ends as NoDependency, and no
\* command is ever called for it.
C4_NoDependency ==
    /\ \A k \in Outcomes :
          DependOnsOf[processedPullRequests[k].PullRequest.Body] = <<>>
              => /\ processedPullRequests[k].Error = ErrNoDependOn
                 /\ OpsOf(k) = {}
    /\ \A i \in 1..Len(ops) :
          ops[i].req > 0 => DependOnsOf[pullRequests[ops[i].req].Body] # <<>>

C4_Witness ==
    \E k \in Outcomes :
        /\ processedPullRequests[k].PullRequest.Body = BodyPlain
        /\ KindOf(k) = "NoDependency"
        /\ k < Len(processedPullRequests)

\* C5: a request whose body has two or more references, equal ones
\* included, ends as AmbiguousDependency carrying all of them in the order
\* of the body, and no command is ever called for it.
C5_AmbiguousDependency ==
    /\ \A k \in Outcomes :
          LET deps == DependOnsOf[processedPullRequests[k].PullRequest.Body]
          IN  Len(deps) >= 2
                  => /\ KindOf(k) = "AmbiguousDependency"
                     /\ processedPullRequests[k].Error[1].refs = deps
                     /\ processedPullRequests[k].DependOns = deps
                     /\ OpsOf(k) = {}
    /\ \A i \in 1..Len(ops) :
          ops[i].req > 0 => Len(DependOnsOf[pullRequests[ops[i].req].Body]) < 2

C5_Witness ==
    \E k \in Outcomes :
        /\ processedPullRequests[k].PullRequest.Body = BodyMany
        /\ KindOf(k) = "AmbiguousDependency"
        /\ processedPullRequests[k].Error[1].refs = <<2, 1, 2>>

\* The lookup of request k answered with a pull request in a state other
\* than merged.
LookedUpNotMerged(k) ==
    \E i \in OpsOf(k) :
        ops[i].op = "lookup" /\ ops[i].res = "ok" /\ ops[i].out # <<"MERGED">>

\* C6: a request whose single dependency is looked up and found open or
\* closed ends as DependencyNotMerged, and neither checkout nor rebase nor
\* abort is called for it.
C6_DependencyNotMerged ==
    \A k \in 1..Len(pullRequests) :
        LookedUpNotMerged(k) =>
            /\ k \in Outcomes
            /\ KindOf(k) = "DependencyNotMerged"
            /\ \A i \in OpsOf(k) : ops[i].op = "lookup"

C6_Witness ==
    \E k \in Outcomes :
        /\ KindOf(k) = "DependencyNotMerged"
        /\ \E i \in OpsOf(k) : ops[i].op = "lookup" /\ ops[i].out = <<"OPEN">>
        /\ pc = "done"

\* Run of the rebase at position i of ops returned an error.
RebaseFailedAt(i) ==
    ops[i].op = "rebase" /\ ops[i].res \in {"ctx", "killed", "fail"}

AbortFollows(i) ==
    i < Len(ops) /\ ops[i + 1].op = "abort" /\ ops[i + 1].req = ops[i].req

\* C7: a rebase that failed, in any way, is followed at once by an abort,
\* called before the request's outcome exists; and the failure recorded is
\* the one the rebase's stderr decides, whatever the abort returned.
C7_AbortAfterFailedRebase ==
    \A i \in 1..Len(ops) :
        RebaseFailedAt(i) =>
            /\ AbortFollows(i)
                  \/ (pc = "abort" /\ i = Len(ops)
                         /\ Len(processedPullRequests) < ops[i].req)
            /\ ops[i].req \in Outcomes =>
                  KindOf(ops[i].req) =
                      IF Contains(ops[i].out, ConflictMarker)
                      THEN "RebaseConflict" ELSE "RebaseFailed"

C7_Witness ==
    \E i \in 1..Len(ops) :
        /\ ops[i].op = "rebase" /\ ops[i].res = "fail"
        /\ ~Contains(ops[i].out, ConflictMarker)
        /\ AbortFollows(i) /\ ops[i + 1].res = "fail"
        /\ ops[i].req \in Outcomes
        /\ KindOf(ops[i].req) = "RebaseFailed"

\* C8: when a request has ended with a failure, no rebase is in progress
\* when the next request begins or the run ends.
C8_NoPendingRebase ==
    (/\ pc \in {"loop", "done"}
     /\ Len(processedPullRequests) > 0
     /\ KindOf(Len(processedPullRequests)) # "nil")
        => ~rebaseInProgress

\* C9: a rebase that was running when the interrupt arrived has completed,
\* or has been aborted by an abort that ran, when the process exits: the
\* repository is not left in the middle of it.
C9_NoHalfAppliedRebase ==
    (pc \in Terminal /\ interruptedRebase # 0) => ~rebaseInProgress

\* C10: the body "Depends on #123" yields the reference 123, so that the
\* request is looked up, checked out and rebased, and not reported as
\* having no dependency.
C10_DocumentedPhrase ==
    \A k \in Outcomes :
        processedPullRequests[k].PullRequest.Body = BodyReadme
            => /\ processedPullRequests[k].DependOns = <<123>>
               /\ KindOf(k) # "NoDependency"

\* C11: a review-platform query that leaves text on stderr counts as failed
\* even with exit status 0: of the two queries of the run it ends the run,
\* of the lookup of a dependency it makes the request a
\* DependencyLookupFailed.
C11_StderrIsFailure ==
    \A i \in 1..Len(ops) :
        ops[i].res = "stderr" =>
            IF ops[i].req = 0
            THEN pc = "exit" /\ processedPullRequests = <<>>
            ELSE /\ JustEnded = ops[i].req
                 /\ KindOf(ops[i].req) = "DependencyLookupFailed"

\* The positions in a section of the report of the row of outcome k.
RowsFor(section, k) ==
    {i \in 1..Len(section) :
        section[i].Number = processedPullRequests[k].PullRequest.Number}

\* The outcome a row of the report stands for.
OutcomeOf(row) ==
    CHOOSE k \in Outcomes :
        processedPullRequests[k].PullRequest.Number = row.Number

InListOrder(section) ==
    \A i, j \in 1..Len(section) :
        i < j => OutcomeOf(section[i]) < OutcomeOf(section[j])

\* C12: the report gives every outcome one row: under "rebased" when it
\* has no failure, under "not rebased" when it has one; the rows of each
\* section are in the order of the list; the message of a row that was not
\* rebased is informational (hiYellow) exactly when the failure is
\* NoDependency and an error (red) otherwise.
C12_ReportPartition ==
    pc = "done" =>
        /\ \A k \in Outcomes :
             /\ Cardinality(RowsFor(output.rebased, k))
                   = (IF KindOf(k) = "nil" THEN 1 ELSE 0)
             /\ Cardinality(RowsFor(output.notRebased, k))
                   = (IF KindOf(k) = "nil" THEN 0 ELSE 1)
        /\ Len(output.rebased) + Len(output.notRebased)
              = Len(processedPullRequests)
        /\ InListOrder(output.rebased)
        /\ InListOrder(output.notRebased)
        /\ \A i \in 1..Len(output.notRebased) :
             LET row == output.notRebased[i]
             IN  /\ row.message = KindOf(OutcomeOf(row))
                 /\ row.messageColor =
                       (IF KindOf(OutcomeOf(row)) = "NoDependency"
                        THEN "hiYellow" ELSE "red")

C12_Witness ==
    /\ pc = "done"
    /\ Len(output.rebased) = 1
    /\ Len(output.notRebased) = 1
    /\ output.notRebased[1].messageColor = "hiYellow"
    /\ output.notRebased[1].Number < output.rebased[1].Number

\* Whether a stderr text of the rebase reports a conflict.
IsConflict ==
    [s \in {<<>>, StderrConflict, StderrOther} |-> Contains(s, ConflictMarker)]

\* The operations a request goes through, in the order of the loop body.
OpOrder == <<"lookup", "checkout", "rebase", "abort">>

\* Whether the run goes on to a next operation after the result of
\* operation o.
GoesOn(o) ==
    CASE o.op = "lookup"   -> o.res = "ok" /\ o.out = <<"MERGED">>
      [] o.op = "checkout" -> o.res = "ok"
      [] o.op = "rebase"   -> o.res # "ok"
      [] OTHER             -> FALSE

\* The outcome kind of a request as a function of the number of references
\* in its body and of the results of the commands called for it (log),
\* which are all of the request and of the environment that the function
\* reads: the draft flag is not among them.
KindFrom(n, log) ==
    IF n = 0 THEN "NoDependency"
    ELSE IF n > 1 THEN "AmbiguousDependency"
    ELSE IF log = <<>> THEN "unfinished"
    ELSE IF ~(log[1].res = "ok") THEN "DependencyLookupFailed"
    ELSE IF ~GoesOn(log[1]) THEN "DependencyNotMerged"
    ELSE IF Len(log) = 1 \/ ~GoesOn(log[2]) THEN "CheckoutFailed"
    ELSE IF Len(log) = 2 THEN "RebaseFailed"
    ELSE IF log[3].res = "ok" THEN "nil"
    ELSE IF IsConflict[log[3].out] THEN "RebaseConflict"
    ELSE "RebaseFailed"

\* C13: the draft flag has no part in the processing.  The operations
\* called for a request and its outcome kind are functions of its body and
\* of the results of the calls alone: every operation is the next of the
\* fixed order and is called because of the result of the one before, and
\* the kind recorded is KindFrom of the references and the results.  Two
\* runs that differ only in draft flags and get the same results therefore
\* call the same operations and record the same kinds.
C13_DraftHasNoEffect ==
    /\ \A i \in 1..Len(ops) :
         ops[i].req > 0 =>
            /\ i <= Len(OpOrder)
            /\ ops[i].op = OpOrder[i]
            /\ i > 1 => GoesOn(ops[i - 1])
    /\ JustEnded > 0 =>
         KindOf(JustEnded)
            = KindFrom(Len(DependOnsOf[pullRequests[JustEnded].Body]), ops)

C13_Witness ==
    /\ pc = "done"
    /\ Len(pullRequests) = 2
    /\ pullRequests[1].IsDraft /\ ~pullRequests[2].IsDraft
    /\ pullRequests[1].Body = pullRequests[2].Body
    /\ KindOf(1) = "nil" /\ KindOf(2) = "nil"

\* The request the commands in ops were called for.
RequestAtHand == IF pc \in {"loop", "done"} THEN JustEnded ELSE idx

C14_Ordered ==
    /\ \A i \in 1..Len(ops) :
         ops[i].req > 0 =>
            /\ ops[i].req = RequestAtHand
            /\ \A j \in 1..Len(ops) : ops[j].op = ops[i].op => j = i
            /\ ops[i].op = "lookup" => i = 1
            /\ ops[i].op = "checkout" =>
                  /\ i = 2
                  /\ ops[1].op = "lookup" /\ ops[1].res = "ok"
                  /\ ops[1].out = <<"MERGED">>
            /\ ops[i].op = "rebase" =>
                  /\ i = 3
                  /\ ops[2].op = "checkout" /\ ops[2].res = "ok"
    /\ (JustEnded > 0 /\ KindOf(JustEnded) = "CheckoutFailed") =>
          \A i \in 1..Len(ops) : ops[i].op # "rebase"

\* A step that calls a command for a request calls it for the request of
\* the loop, which has no outcome yet, and adds it after the commands
\* called before.
C14_Step ==
    (Len(ops') > Len(ops) /\ ops'[Len(ops')].req > 0) =>
        /\ ops'[Len(ops')].req = idx
        /\ idx = Len(processedPullRequests) + 1
        /\ Len(ops') = Len(ops) + 1
        /\ \A i \in 1..Len(ops) : ops'[i] = ops[i]

\* C14: the commands of a request are called in order and once each: the
\* lookup first, the checkout only after a lookup that returned a merged
\* dependency, the rebase only after the checkout of the same request
\* succeeded, none after a failed checkout; no command is called for a
\* request that has its outcome, and the commands of two requests do not
\* interleave.
C14_OrderedNeverRetried == []C14_Ordered /\ [][C14_Step]_vars

C14_Witness ==
    /\ pc = "done"
    /\ JustEnded = 2
    /\ KindOf(1) = "nil"
    /\ KindOf(2) = "CheckoutFailed"
    /\ Len(ops) = 2 /\ ops[2].op = "checkout" /\ ops[2].res = "fail"

\* C15: a checkout or a rebase is called for a request only when the
\* dependency that was looked up is merged and carries a merge commit id.
C15_MergeCommitRecorded ==
    \A i \in 1..Len(ops) :
        (ops[i].op \in {"checkout", "rebase"} /\ ops[i].req = idx) =>
            /\ dependedPullRequest # <<>>
            /\ dependedPullRequest[1].State = "MERGED"
            /\ dependedPullRequest[1].MergeCommit.Oid # <<>>

\* C16: once the abort of a failed rebase was attempted, the request has
\* its outcome, whatever the old parent id and the stderr text: a
\* RebaseConflict that carries the first 7 characters of the old parent id
\* when the text contains "could not apply", a RebaseFailed otherwise.
C16_RebaseErrorClassified ==
    (Len(ops) = 4 /\ ops[4].op = "abort") =>
        /\ pc # "panic"
        /\ JustEnded = ops[4].req
        /\ LET e == processedPullRequests[JustEnded].Error[1]
               oldParent == dependedPullRequest[1].MergeCommit.Oid
           IN  IF IsConflict[ops[3].out]
               THEN /\ e.kind = "RebaseConflict"
                    /\ Len(e.short) = 7
                    /\ e.short = SubSeq(oldParent, 1, 7)
               ELSE e.kind = "RebaseFailed"

\* C17: once ctx is cancelled no checkout and no rebase is started, and
\* the requests that remain still get their outcomes: the run that was
\* interrupted ends with the report and an outcome for every request.
C17_InterruptStopsOperations ==
    /\ \A i \in 1..Len(ops) :
         (ops[i].late /\ ops[i].op \in {"checkout", "rebase"}) => ~ops[i].ran
    /\ (cancelled /\ pc \in Terminal /\ Len(pullRequests) > 0) =>
          (pc = "done" /\ Len(processedPullRequests) = Len(pullRequests))

\* C18: an outcome carries the looked-up dependency exactly when it has no
\* failure; the Number of that dependency is the single reference of the
\* request; so the rows of the rebased section, which read that Number
\* through the pointer, always find it.
C18_DependedIffSuccess ==
    /\ \A k \in Outcomes :
         LET o == processedPullRequests[k]
         IN  /\ (o.Error = <<>>) <=> (o.DependedPullRequest # <<>>)
             /\ o.Error = <<>> =>
                   /\ Len(o.DependOns) = 1
                   /\ o.DependedPullRequest[1].Number = o.DependOns[1]
    /\ pc = "done" =>
          \A i \in 1..Len(output.rebased) :
              output.rebased[i].Depended
                 = processedPullRequests[OutcomeOf(output.rebased[i])].DependOns[1]
    /\ pc = "panic" => idx <= Len(pullRequests)

C18_Witness ==
    /\ pc = "done"
    /\ Len(processedPullRequests) = 2
    /\ KindOf(1) = "nil"
    /\ KindOf(2) = "RebaseFailed"
    /\ output.rebased[1].Depended = 123

\* What HEAD of the working copy is: the branch that was checked out last,
\* except in the middle of a rebase, which git applies on a detached HEAD
\* until it finishes or is aborted.
HeadOfWorkingCopy ==
    IF rebaseInProgress THEN <<"detached", 0>> ELSE currentBranch

\* The requests of the outcome list whose checkout succeeded: those that
\* went on to the rebase.
CheckedOut ==
    {k \in Outcomes : KindOf(k) \in {"nil", "RebaseConflict", "RebaseFailed"}}

\* C19: the run ends on the head branch of the last request whose checkout
\* succeeded, whether its rebase succeeded or failed, and on the branch it
\* started on when no checkout succeeded; it never switches back.
C19_EndsOnLastCheckedOut ==
    pc = "done" =>
        HeadOfWorkingCopy =
            IF CheckedOut = {} THEN <<"original", 0>>
            ELSE pullRequests[CHOOSE k \in CheckedOut :
                                 \A j \in CheckedOut : j <= k].HeadRefName

\* C20: the err that line 125 tests is nil in every iteration: the errors
\* of the lookup, the checkout and the rebase go to the err that line 148
\* declares in the loop body, so the loop panics at its top only on a
\* reference that Atoi rejects, never on the failure of the request before.
C20_OuterErrNil ==
    /\ Len(pullRequests) > 0 => err = <<>>
    /\ (pc = "panic" /\ ops = <<>> /\ idx > 0) =>
          pullRequests[idx].Body = BodyHuge

C20_Witness ==
    /\ pc = "lookup"
    /\ idx = 2
    /\ KindOf(1) = "CheckoutFailed"
    /\ err = <<>>

====
